---- MODULE Spec2Model ----
(***************************************************************************)
(* State-machine model of faucet.Pipe (src/pipe.go, src/faucet.go): the    *)
(* registration and lifecycle methods, the worker goroutine (polling loop, *)
(* round-robin input scan, concurrent fan-out, join, error aggregation and *)
(* deferred shutdown) and the cleanup goroutine.                           *)
(*                                                                         *)
(* Indices (i, j, lastInput, x) are 0-based as in the Go code; the TLA+    *)
(* sequences inputs/outputs are 1-based, so p.inputs[k] is inputs[k + 1].  *)
(* An error value is a sequence of tagged entries, nil being <<>>; the     *)
(* "%v | %v" composition of pipe.go:250 is Append.                         *)
(***************************************************************************)
EXTENDS Integers, Sequences, FiniteSets, TLC

\* ---------------------------------------------------------------- bounds
MaxInputs == 2
MaxOutputs == 2
MaxFires == 2
NumValues == 2
MaxBlocked == 1

\* the callers that can be blocked in p.mutex.Lock() at one time
Clients == 1..MaxBlocked
Values == 1..NumValues

\* a nil function / nil context argument
NIL == "nil"

\* the functions a caller can register: what an input or an output does when
\* it is invoked is chosen at each invocation
InputFns == {"in"}
OutputFns == {"out"}
Rates == {-1, 0, 1}
Contexts == {NIL, "parent"}

VARIABLES
    \* ---- Pipe fields (faucet.go:33-47)
    mutex,          \* "unlocked" | "worker" (held across a tick by the worker)
    open,           \* p.open (sync.Once) has run
    close,          \* p.close (sync.Once) has run
    err,            \* p.err
    done,           \* p.done: [id, closes]; id 0 is the nil channel
    stop,           \* p.stop: "nil" | "open" | "closed"
    ticker,         \* p.ticker: "nil" | "running" | "stopped"
    tickerC,        \* a tick is buffered in p.ticker.C
    inputs,         \* p.inputs
    outputs,        \* p.outputs
    cancelled,      \* p.cancel has been called
    parentCancelled,\* the context given to Start has been cancelled
    \* ---- worker goroutine
    wpc,            \* position of the worker
    i, j, first, werr, lastInput, inputLength, outputLength, value,
    r,              \* a panic is unwinding the worker
    errs,           \* the errs channel of the current fan-out
    nrecv,          \* x of the join loop
    \* ---- cleanup goroutine
    cpc,
    \* ---- callers
    pend,           \* per caller: the call blocked in p.mutex.Lock()
    panicked,       \* the most recent call of a method panicked
    \* ---- observation
    inflight,       \* output invocations that have not returned
    polled,         \* the polls of the current tick, in order: the input
                    \* index and what the input reported ("polling" until
                    \* it returns)
    prevFanned,     \* the previous tick fanned a value out
    invoked,        \* output invocations started by the current tick
    foundRec,       \* what the current tick's scan obtained
    nticks,         \* ticks begun so far
    fires,          \* timer firings delivered to p.ticker.C so far
    starve,         \* per input index: the completed ticks since it last
                    \* supplied the value or reported not-found
    everStopped,    \* a caller has called Stop() successfully
    failed,         \* an input or output has failed (error or panic)
    outFailed       \* indices of the outputs that have failed

pipeVars == <<mutex, open, close, err, done, stop, ticker, tickerC, inputs,
              outputs, cancelled, parentCancelled>>
workerVars == <<wpc, i, j, first, werr, lastInput, inputLength, outputLength,
                value, r, errs, nrecv>>
obsVars == <<inflight, polled, prevFanned, invoked, foundRec, nticks, fires,
             starve, everStopped, failed, outFailed>>
vars == <<pipeVars, workerVars, cpc, pend, panicked, obsVars>>

\* ---------------------------------------------------------------- errors
NoErr == <<>>
ContextErr == <<[site |-> "context", idx |-> 0, kind |-> "error"]>>
\* (variant: the input error is tagged with the loop counter j)
InputErrByJ(x) == <<[site |-> "input", idx |-> j, kind |-> "error"]>>
InputErr(x) == <<[site |-> "input", idx |-> x, kind |-> "error"]>>
InputPanicErr(x) == <<[site |-> "input", idx |-> x, kind |-> "panic"]>>
OutputErr(x) == <<[site |-> "output", idx |-> x, kind |-> "error"]>>
OutputPanicErr(x) == <<[site |-> "output", idx |-> x, kind |-> "panic"]>>

\* (variant: p.ctx is not derived from the context given to Start)
CtxErrDetached == cancelled

\* p.ctx.Err() != nil: p.ctx is derived from the parent by WithCancel
CtxErr == parentCancelled \/ cancelled

NilChan == [id |-> 0, closes |-> 0]
NoCall == [op |-> "none"]
NoFound == [found |-> FALSE, value |-> 0, src |-> 0, nout |-> 0]

Init ==
    /\ mutex = "unlocked" /\ open = FALSE /\ close = FALSE
    /\ err = NoErr /\ done = NilChan /\ stop = "nil"
    /\ ticker = "nil" /\ tickerC = FALSE
    /\ inputs = <<>> /\ outputs = <<>>
    /\ cancelled = FALSE /\ parentCancelled = FALSE
    /\ wpc = "idle" /\ i = 0 /\ j = 0 /\ first = TRUE /\ werr = NoErr
    /\ lastInput = 0 /\ inputLength = 0 /\ outputLength = 0 /\ value = 0
    /\ r = FALSE /\ errs = <<>> /\ nrecv = 0
    /\ cpc = "idle"
    /\ pend = [c \in Clients |-> NoCall]
    /\ panicked = FALSE
    /\ inflight = {} /\ prevFanned = FALSE /\ polled = <<>> /\ invoked = <<>>
    /\ foundRec = NoFound /\ nticks = 0 /\ fires = 0 /\ starve = <<>>
    /\ everStopped = FALSE /\ failed = FALSE
    /\ outFailed = {}

\* ------------------------------------------------------- Pipe.ensure
\* p.open.Do: the stop and done channels are made by the first call only
NewDone == [id |-> done.id + 1, closes |-> 0]
EnsuredStop == IF open THEN stop ELSE "open"
\* (variant: the channels are made anew by every call)
EnsuredDoneAnew == NewDone
EnsuredDone == IF open THEN done ELSE NewDone
ensure ==
    /\ open' = TRUE
    /\ stop' = EnsuredStop
    /\ done' = EnsuredDone

\* a method returns normally / panics with msg
Returns == panicked' = FALSE
Panics(msg) == panicked' = TRUE

\* calls blocked in p.mutex.Lock() that will append to p.inputs / p.outputs
PendingOps(op) == Cardinality({c \in Clients : pend[c].op = op})

\* ------------------------------------- the critical sections of the methods
\* AddInput, pipe.go:34-37
AddInputLocked(fn) ==
    /\ inputs' = Append(inputs, fn)
    /\ Returns
    /\ UNCHANGED <<outputs, ticker, wpc, cpc>>

\* AddOutput, pipe.go:48-51
AddOutputLocked(fn) ==
    /\ outputs' = Append(outputs, fn)
    /\ Returns
    /\ UNCHANGED <<inputs, ticker, wpc, cpc>>

\* Err, pipe.go:58-61
ErrLocked ==
    /\ Returns
    /\ UNCHANGED <<inputs, outputs, ticker, wpc, cpc>>

\* Done, pipe.go:69-72
DoneLocked ==
    /\ Returns
    /\ UNCHANGED <<inputs, outputs, ticker, wpc, cpc>>

\* (variant: Start does not test whether the pipe was started)
AlreadyStartedUntested == FALSE

\* if p.ticker != nil, pipe.go:92
AlreadyStarted == ticker # "nil"

\* Start, pipe.go:89-100
StartLocked ==
    /\ IF AlreadyStarted
       THEN /\ Panics("faucet.Pipe.Start already started")
            /\ UNCHANGED <<ticker, wpc, cpc>>
       ELSE /\ ticker' = "running"
            /\ wpc' = "loopTop"
            /\ cpc' = "waitCtx"
            /\ Returns
    /\ UNCHANGED <<inputs, outputs>>

Locked(call) ==
    CASE call.op = "AddInput" -> AddInputLocked(call.fn)
      [] call.op = "AddOutput" -> AddOutputLocked(call.fn)
      [] call.op = "Err" -> ErrLocked
      [] call.op = "Done" -> DoneLocked
      [] call.op = "Start" -> StartLocked

\* p.mutex.Lock() of a method: taken at once when the mutex is free,
\* otherwise the caller blocks until Resume
LockOrBlock(call) ==
    IF mutex = "unlocked"
    THEN Locked(call) /\ UNCHANGED pend
    ELSE /\ \E c \in Clients :
              /\ pend[c] = NoCall
              /\ \A d \in Clients : d < c => pend[d] # NoCall
              /\ pend' = [pend EXCEPT ![c] = call]
         /\ UNCHANGED <<inputs, outputs, ticker, wpc, cpc, panicked>>

Panicked(msg) ==
    /\ Panics(msg)
    /\ UNCHANGED <<inputs, outputs, ticker, wpc, cpc, pend>>

callFrame == <<mutex, close, err, tickerC, cancelled, parentCancelled,
               i, j, first, werr, lastInput, inputLength, outputLength, value,
               r, errs, nrecv, inflight, prevFanned, polled, invoked, foundRec,
               nticks, fires, starve, failed, outFailed>>

\* ------------------------------------------------------------ the methods
AddInput(fn) ==
    /\ Len(inputs) + PendingOps("AddInput") < MaxInputs
    /\ ensure
    /\ IF fn = NIL
       THEN Panicked("faucet.AddInput nil fn")
       ELSE LockOrBlock([op |-> "AddInput", fn |-> fn])
    /\ UNCHANGED <<callFrame, everStopped>>

AddOutput(fn) ==
    /\ Len(outputs) + PendingOps("AddOutput") < MaxOutputs
    /\ ensure
    /\ IF fn = NIL
       THEN Panicked("faucet.AddOutput nil fn")
       ELSE LockOrBlock([op |-> "AddOutput", fn |-> fn])
    /\ UNCHANGED <<callFrame, everStopped>>

Err ==
    /\ ensure
    /\ LockOrBlock([op |-> "Err"])
    /\ UNCHANGED <<callFrame, everStopped>>

Done ==
    /\ ensure
    /\ LockOrBlock([op |-> "Done"])
    /\ UNCHANGED <<callFrame, everStopped>>

Start(ctx, rate) ==
    /\ ensure
    /\ IF ctx = NIL
       THEN Panicked("faucet.Pipe.Start nil context")
       ELSE IF rate <= 0
            THEN Panicked("faucet.Pipe.Start rate <= 0")
            ELSE LockOrBlock([op |-> "Start"])
    /\ UNCHANGED <<callFrame, everStopped>>

\* the caller blocked in p.mutex.Lock() gets the mutex
Resume(c) ==
    /\ pend[c] # NoCall
    /\ mutex = "unlocked"
    /\ UNCHANGED <<open, stop, done>>
    /\ Locked(pend[c])
    /\ pend' = [pend EXCEPT ![c] = NoCall]
    /\ UNCHANGED <<callFrame, everStopped>>

\* (variant: the Once of p.close is tested the wrong way round)
CloseStopInverted == IF close THEN "closed" ELSE EnsuredStop

\* p.close.Do(func() { close(p.stop) }), pipe.go:112-114
CloseStop == IF close THEN EnsuredStop ELSE "closed"

\* (variant: the test of pipe.go:108 is the wrong way round)
NotStartedInverted == ticker # "nil"

\* if p.ticker == nil, pipe.go:108
NotStarted == ticker = "nil"

\* (variant: Stop locks p.mutex before it reads p.ticker)
StopWaitsForMutex == mutex = "unlocked"

\* Stop calls neither p.mutex.Lock() nor receives from a channel: nothing
\* in pipe.go:105-115 can make it wait
StopProceeds == TRUE

\* Stop, pipe.go:105-115: takes no lock
Stop ==
    /\ StopProceeds
    /\ open' = TRUE
    /\ done' = EnsuredDone
    /\ IF NotStarted
       THEN /\ stop' = EnsuredStop
            /\ Panics("faucet.Pipe.Stop not started")
            /\ UNCHANGED <<close, everStopped>>
       ELSE /\ stop' = CloseStop
            /\ close' = TRUE
            /\ everStopped' = TRUE
            /\ Returns
    /\ UNCHANGED <<mutex, err, ticker, tickerC, inputs, outputs, cancelled,
                   parentCancelled, workerVars, cpc, pend, inflight, prevFanned,
                   polled, invoked, foundRec, nticks, fires, starve,
                   failed, outFailed>>

\* ------------------------------------------------------- the environment
\* the caller cancels the context it gave to Start
CancelParent ==
    /\ ~parentCancelled
    /\ parentCancelled' = TRUE
    /\ UNCHANGED <<mutex, open, close, err, done, stop, ticker, tickerC,
                   inputs, outputs, cancelled, workerVars, cpc, pend, panicked,
                   obsVars>>

\* the runtime timer of time.NewTicker fires: the channel p.ticker.C holds
\* one tick, and a firing that finds it full is dropped and leaves no trace
TimerFire ==
    /\ ticker = "running"
    /\ ~tickerC
    /\ fires < MaxFires
    /\ fires' = fires + 1
    /\ tickerC' = TRUE
    /\ UNCHANGED <<mutex, open, close, err, done, stop, ticker, inputs,
                   outputs, cancelled, parentCancelled, workerVars, cpc, pend,
                   panicked, inflight, prevFanned, polled, invoked, foundRec,
                   nticks, starve, everStopped, failed, outFailed>>

\* ------------------------------------------------------------ the worker
\* what an input function may do when polled
InputOutcomes ==
    {[kind |-> "found", value |-> v] : v \in Values}
    \cup {[kind |-> k, value |-> 0] : k \in {"notfound", "error", "panic"}}

OutputOutcomes == {"ok", "error", "panic"}

\* the starvation counters after a tick over n inputs has returned true,
\* having polled the inputs in the sequence p: a polled input either
\* supplied the value or reported not-found; a tick over a different number
\* of inputs than the previous restarts the count
Starved(n, p) ==
    [x \in 1..n |->
        IF \E k \in DOMAIN p : p[k].x = x - 1 THEN 0
        ELSE IF Len(starve) = n THEN starve[x] + 1
        ELSE 1]

\* (variant: the tick counter does not advance)
NextIStuck == i

\* for i := 0; ; i++, pipe.go:158
NextI == i + 1

\* the deferred p.mutex.Unlock() of pipe.go:169
TickUnlock == "unlocked"

\* tick() is left: the locals of the closure and its errs channel are gone
TickLocalsGone ==
    /\ j' = 0 /\ inputLength' = 0 /\ outputLength' = 0 /\ value' = 0
    /\ errs' = <<>> /\ nrecv' = 0
    /\ invoked' = <<>> /\ foundRec' = NoFound

\* tick() returned true: the deferred Unlock has run and the loop goes to its
\* next iteration (continue at :268, or the end of the select at :286)
TickReturnsTrue ==
    /\ mutex' = TickUnlock
    /\ i' = NextI
    /\ wpc' = "loopTop"
    /\ TickLocalsGone
    /\ polled' = <<>>
    /\ prevFanned' = (invoked # <<>>)
    /\ starve' = Starved(inputLength, polled)

\* tick() returned false, or the panic of an input unwinds through it: the
\* deferred Unlock has run and the worker returns
TickReturnsFalse ==
    /\ mutex' = TickUnlock
    /\ wpc' = "deferErr"
    /\ TickLocalsGone
    /\ UNCHANGED <<i, starve, prevFanned>>

\* (variant: the first iteration waits in the select like any other)
AfterCheckSelect == "select"

\* if first { ... tick() ... } else select, pipe.go:262-271
AfterCheck == IF first THEN "tick" ELSE "select"

\* pipe.go:159-164 and :262-269
LoopTop ==
    /\ wpc = "loopTop"
    /\ IF CtxErr
       THEN /\ werr' = ContextErr
            /\ wpc' = "deferErr"
            /\ UNCHANGED first
       ELSE /\ werr' = NoErr
            /\ first' = FALSE
            /\ wpc' = AfterCheck
    /\ UNCHANGED <<pipeVars, i, j, lastInput, inputLength, outputLength,
                   value, r, errs, nrecv, cpc, pend, panicked, obsVars>>

\* case <-p.stop, pipe.go:272-274
SelectStop ==
    /\ wpc = "select"
    /\ stop = "closed"
    /\ wpc' = "deferErr"
    /\ UNCHANGED <<pipeVars, i, j, first, werr, lastInput, inputLength,
                   outputLength, value, r, errs, nrecv, cpc, pend, panicked,
                   obsVars>>

\* case <-p.ctx.Done(), pipe.go:276-279
SelectCtx ==
    /\ wpc = "select"
    /\ CtxErr
    /\ werr' = ContextErr
    /\ wpc' = "deferErr"
    /\ UNCHANGED <<pipeVars, i, j, first, lastInput, inputLength,
                   outputLength, value, r, errs, nrecv, cpc, pend, panicked,
                   obsVars>>

\* (variant: the receive leaves the tick in the channel)
ReceivedNot == tickerC

\* p.ticker.C after the receive of pipe.go:281 has taken the tick
Received == FALSE

\* case <-p.ticker.C, pipe.go:281-283
SelectTick ==
    /\ wpc = "select"
    /\ tickerC
    /\ tickerC' = Received
    /\ wpc' = "tick"
    /\ UNCHANGED <<mutex, open, close, err, done, stop, ticker, inputs,
                   outputs, cancelled, parentCancelled, i, j, first, werr,
                   lastInput, inputLength, outputLength, value, r, errs,
                   nrecv, cpc, pend, panicked, obsVars>>

\* (variant: tick() does not look at p.stop)
StopRecheckSkipped == FALSE

\* the stop re-check of pipe.go:172-177
StopRecheck == stop = "closed"

\* (variant: the snapshot leaves out the input registered last)
SnapshotButNewest == IF inputs = <<>> THEN 0 ELSE Len(inputs) - 1

\* inputLength := len(p.inputs), pipe.go:179
SnapshotInputs == Len(inputs)

\* tick(), pipe.go:168-179: lock, re-check stop, snapshot the lengths
TickBegin ==
    /\ wpc = "tick"
    /\ mutex = "unlocked"
    /\ nticks' = nticks + 1
    /\ IF StopRecheck
       THEN /\ wpc' = "deferErr"
            /\ UNCHANGED <<mutex, inputLength, outputLength, j>>
       ELSE /\ mutex' = "worker"
            /\ inputLength' = SnapshotInputs
            /\ outputLength' = Len(outputs)
            /\ j' = 0
            /\ wpc' = "scan"
    /\ UNCHANGED <<open, close, err, done, stop, ticker, tickerC, inputs,
                   outputs, cancelled, parentCancelled, i, first, werr,
                   lastInput, value, r, errs, nrecv, cpc, pend, panicked,
                   inflight, prevFanned, polled, invoked, foundRec, fires,
                   starve, everStopped, failed, outFailed>>

\* (variant: the scan always starts at input 0)
RotatedNot(ii, jj, n) == jj % n

\* lastInput = (i + j) % inputLength, pipe.go:194
Rotated(ii, jj, n) == (ii + jj) % n

\* (variant: the scan does not look at the context)
ScanCtxUnchecked == FALSE

\* err = p.ctx.Err(); if err != nil, pipe.go:182-184
ScanCtxErr == CtxErr

\* (variant: a tick that obtained no value returns false)
NothingFoundFails == TickReturnsFalse /\ UNCHANGED polled

\* did not retrieve any input, but no error: return true, pipe.go:257-258
NothingFound == TickReturnsTrue

\* one iteration of for j := 0; j < inputLength; j++, pipe.go:181-196, and
\* the fall-through of :257-258
Scan ==
    /\ wpc = "scan"
    /\ IF j >= inputLength
       THEN /\ NothingFound
            /\ UNCHANGED <<werr, lastInput>>
       ELSE IF ScanCtxErr
            THEN /\ werr' = ContextErr
                 /\ TickReturnsFalse
                 /\ UNCHANGED <<lastInput, polled>>
            ELSE /\ lastInput' = Rotated(i, j, inputLength)
                 /\ polled' = Append(polled, [x |-> lastInput',
                                               kind |-> "polling"])
                 /\ wpc' = "poll"
                 /\ UNCHANGED <<mutex, i, starve, werr, j, inputLength,
                                outputLength, value, errs, nrecv, invoked,
                                foundRec, prevFanned>>
    /\ UNCHANGED <<open, close, err, done, stop, ticker, tickerC, inputs,
                   outputs, cancelled, parentCancelled, first, r, cpc,
                   pend, panicked, inflight, nticks, fires,
                   everStopped, failed, outFailed>>

\* (variant: the last output is left out of the fan-out)
FanOutButLast(v) ==
    [k \in 1..(Len(outputs) - 1) |-> [x |-> k - 1, value |-> v]]

\* for x, output := range p.outputs { go func ... }, pipe.go:218-236: the
\* outputs that are invoked, each with the value handed to it
FanOutTargets(v) == [k \in 1..Len(outputs) |-> [x |-> k - 1, value |-> v]]

\* the polls of the tick once the input being polled has reported o
Reported(o) ==
    [polled EXCEPT ![Len(polled)] = [x |-> @.x, kind |-> o.kind]]

\* an input invocation has not returned
Polling == polled # <<>> /\ polled[Len(polled)].kind = "polling"

\* p.inputs[lastInput](p.ctx) returns or panics, pipe.go:196-236
InputReturn(o) ==
    /\ wpc = "poll"
    /\ o \in InputOutcomes
    /\ inputs[lastInput + 1] \in InputFns
    /\ CASE o.kind = "error" ->
              /\ werr' = InputErr(lastInput)
              /\ TickReturnsFalse
              /\ failed' = TRUE
              /\ polled' = Reported(o)
              /\ UNCHANGED <<r, inflight>>
         [] o.kind = "panic" ->
              /\ r' = TRUE
              /\ TickReturnsFalse
              /\ failed' = TRUE
              /\ polled' = Reported(o)
              /\ UNCHANGED <<werr, inflight>>
         [] o.kind = "notfound" ->
              /\ j' = j + 1
              /\ wpc' = "scan"
              /\ polled' = Reported(o)
              /\ UNCHANGED <<mutex, i, starve, inputLength, outputLength,
                             value, werr, r, errs, nrecv, inflight,
                             invoked, foundRec, failed, prevFanned>>
         [] o.kind = "found" ->
              /\ IF outputLength = 0
                 THEN /\ TickReturnsTrue
                      /\ UNCHANGED inflight
                 ELSE /\ value' = o.value
                      /\ foundRec' = [found |-> TRUE, value |-> o.value,
                                      src |-> polled[Len(polled)].x,
                                      nout |-> Len(outputs)]
                      /\ errs' = <<>>
                      /\ nrecv' = 0
                      /\ invoked' = FanOutTargets(o.value)
                      /\ inflight' = inflight \cup
                            {[tick |-> nticks - 1, x |-> invoked'[k].x,
                              value |-> invoked'[k].value] :
                                k \in DOMAIN invoked'}
                      /\ polled' = Reported(o)
                      /\ wpc' = "join"
                      /\ UNCHANGED <<mutex, i, starve, j, inputLength,
                                     outputLength, prevFanned>>
              /\ UNCHANGED <<werr, r, failed>>
    /\ UNCHANGED <<open, close, err, done, stop, ticker, tickerC, inputs,
                   outputs, cancelled, parentCancelled, first, lastInput,
                   cpc, pend, panicked, nticks, fires, everStopped,
                   outFailed>>

\* what the goroutine of pipe.go:219-235 sends on errs
OutputResult(x, o) ==
    CASE o = "ok" -> NoErr
      [] o = "error" -> OutputErr(x)
      [] o = "panic" -> OutputPanicErr(x)

\* output(p.ctx, value) returns or panics and the goroutine sends on the
\* (buffered) errs channel of its own fan-out, pipe.go:222-234
OutputReturn(inv, o) ==
    /\ inv \in inflight
    /\ o \in OutputOutcomes
    /\ inflight' = inflight \ {inv}
    /\ errs' = IF inv.tick = nticks - 1 /\ wpc = "join"
               THEN Append(errs, OutputResult(inv.x, o))
               ELSE errs
    /\ failed' = (failed \/ o # "ok")
    /\ outFailed' = IF o = "ok" THEN outFailed ELSE outFailed \cup {inv.x}
    /\ UNCHANGED <<pipeVars, wpc, i, j, first, werr, lastInput, inputLength,
                   outputLength, value, r, nrecv, cpc, pend, panicked,
                   prevFanned, polled, invoked, foundRec, nticks, fires,
                   starve, everStopped>>

\* (variant: only the first output error is kept)
AggregateFirst(e, outputErr) ==
    IF e = NoErr THEN outputErr ELSE e

\* pipe.go:241-250
Aggregate(e, outputErr) ==
    IF outputErr = NoErr THEN e
    ELSE IF e = NoErr THEN outputErr
    ELSE e \o outputErr

\* (variant: the join loop stops one receive short)
JoinCountShort == outputLength - 1

\* the join loop runs until x reaches outputLength, pipe.go:238
JoinCount == outputLength

\* (variant: the join loop is left at the first output error)
JoinedOrFailed == nrecv + 1 >= JoinCount \/ werr' # NoErr

\* the receive just made was the last of the join loop, pipe.go:238
Joined == nrecv + 1 >= JoinCount

\* outputErr := <-errs, pipe.go:238-254
JoinRecv ==
    /\ wpc = "join"
    /\ errs # <<>>
    /\ werr' = Aggregate(werr, Head(errs))
    /\ IF Joined
       THEN IF werr' = NoErr
            THEN TickReturnsTrue
            ELSE /\ TickReturnsFalse
                 /\ UNCHANGED polled
       ELSE /\ errs' = Tail(errs)
            /\ nrecv' = nrecv + 1
            /\ UNCHANGED <<mutex, i, wpc, starve, j, inputLength,
                           outputLength, value, polled, invoked, foundRec,
                           prevFanned>>
    /\ UNCHANGED <<open, close, err, done, stop, ticker, tickerC, inputs,
                   outputs, cancelled, parentCancelled, first, lastInput, r,
                   cpc, pend, panicked, inflight, nticks, fires,
                   everStopped, failed, outFailed>>

\* (variant: the recovered panic is not turned into an error)
RecoveredErrDropped == werr

\* the error the deferred function of pipe.go:147-150 leaves in err
RecoveredErr == IF r THEN InputPanicErr(lastInput) ELSE werr

\* (variant: the assignment to p.err is left out)
AssignedErrStale == err

\* p.err = err, pipe.go:155
AssignedErr == RecoveredErr

\* the deferred function of pipe.go:147-156; the loop has been left for
\* good, so the counters that observe the rotation are dropped
DeferErr ==
    /\ wpc = "deferErr"
    /\ mutex = "unlocked"
    /\ werr' = RecoveredErr
    /\ err' = AssignedErr
    /\ r' = FALSE
    /\ wpc' = "deferCancel"
    /\ starve' = <<>>
    /\ prevFanned' = FALSE
    /\ UNCHANGED <<mutex, open, close, done, stop, ticker, tickerC, inputs,
                   outputs, cancelled, parentCancelled, i, j, first,
                   lastInput, inputLength, outputLength, value, errs, nrecv,
                   cpc, pend, panicked, inflight, polled, invoked, foundRec,
                   nticks, fires, everStopped, failed, outFailed>>

\* defer p.cancel(), pipe.go:139
DeferCancel ==
    /\ wpc = "deferCancel"
    /\ cancelled' = TRUE
    /\ wpc' = "deferClose"
    /\ UNCHANGED <<mutex, open, close, err, done, stop, ticker, tickerC,
                   inputs, outputs, parentCancelled, i, j, first, werr,
                   lastInput, inputLength, outputLength, value, r, errs,
                   nrecv, cpc, pend, panicked, obsVars>>

\* defer close(p.done), pipe.go:138
DeferClose ==
    /\ wpc = "deferClose"
    /\ done' = [done EXCEPT !.closes = @ + 1]
    /\ wpc' = "exited"
    /\ UNCHANGED <<mutex, open, close, err, stop, ticker, tickerC, inputs,
                   outputs, cancelled, parentCancelled, i, j, first, werr,
                   lastInput, inputLength, outputLength, value, r, errs,
                   nrecv, cpc, pend, panicked, obsVars>>

\* ---------------------------------------------- the cleanup goroutine
\* (variant: the cleanup goroutine does not stop the ticker)
TickerLeftRunning == ticker

\* p.ticker after the deferred p.ticker.Stop() of pipe.go:133
TickerStopped == "stopped"

\* <-p.ctx.Done() and the deferred p.ticker.Stop(), pipe.go:133-134
CleanupCtx ==
    /\ cpc = "waitCtx"
    /\ CtxErr
    /\ ticker' = TickerStopped
    /\ cpc' = "waitDone"
    /\ UNCHANGED <<mutex, open, close, err, done, stop, tickerC, inputs,
                   outputs, cancelled, parentCancelled, workerVars, pend,
                   panicked, obsVars>>

\* the deferred <-p.done, pipe.go:130-132
CleanupDone ==
    /\ cpc = "waitDone"
    /\ done.closes > 0
    /\ cpc' = "stop"
    /\ UNCHANGED <<pipeVars, workerVars, pend, panicked, obsVars>>

\* the deferred p.Stop(), pipe.go:129
CleanupStop ==
    /\ cpc = "stop"
    /\ stop' = CloseStop
    /\ close' = TRUE
    /\ cpc' = "exited"
    /\ UNCHANGED <<mutex, open, err, done, ticker, tickerC, inputs, outputs,
                   cancelled, parentCancelled, workerVars, pend, panicked,
                   obsVars>>

\* ------------------------------------------------------ specification
Caller ==
    \/ \E fn \in InputFns \cup {NIL} : AddInput(fn)
    \/ \E fn \in OutputFns \cup {NIL} : AddOutput(fn)
    \/ Err
    \/ Done
    \/ \E ctx \in Contexts, rate \in Rates : Start(ctx, rate)
    \/ Stop
    \/ \E c \in Clients : Resume(c)

Worker ==
    \/ LoopTop
    \/ SelectStop
    \/ SelectCtx
    \/ SelectTick
    \/ TickBegin
    \/ Scan
    \/ \E o \in InputOutcomes : InputReturn(o)
    \/ JoinRecv
    \/ DeferErr
    \/ DeferCancel
    \/ DeferClose

Outputs == \E inv \in inflight, o \in OutputOutcomes : OutputReturn(inv, o)

Cleanup == CleanupCtx \/ CleanupDone \/ CleanupStop

Next ==
    \/ Caller
    \/ CancelParent
    \/ TimerFire
    \/ Worker
    \/ Outputs
    \/ Cleanup

Spec == Init /\ [][Next]_vars

\* The scheduler runs every goroutine that can take a step, an input or
\* output invocation that is in flight returns, and a caller blocked on the
\* mutex gets it once it is free.  The timer and the callers are not obliged
\* to act.
Fairness ==
    /\ WF_vars(Worker)
    /\ WF_vars(Outputs)
    /\ WF_vars(Cleanup)
    /\ WF_vars(\E c \in Clients : Resume(c))

FairSpec == Init /\ [][Next]_vars /\ Fairness

\* ------------------------------------------------------------ properties
DoneFired == done.closes > 0
Started == ticker # "nil"
MidTick == wpc \in {"scan", "poll", "join"}
Exiting == wpc \in {"deferErr", "deferCancel", "deferClose", "exited"}
ErrAssigned == wpc \in {"deferCancel", "deferClose", "exited"}
LastPoll == polled[Len(polled)]
InputErrored == polled # <<>> /\ LastPoll.kind = "error"
\* the error values Err() is claimed to return
TaggedInputError(x) == <<[site |-> "input", idx |-> x, kind |-> "error"]>>
TaggedInputPanic(x) == <<[site |-> "input", idx |-> x, kind |-> "panic"]>>
InputPanicked == polled # <<>> /\ LastPoll.kind = "panic"

\* C1: while an input of a tick is being polled, no output invocation of an
\* earlier tick is still in flight, and all output invocations in flight at
\* any moment were started by one and the same tick.
C1_TicksSequential ==
    /\ Polling => \A a \in inflight : a.tick >= nticks - 1
    /\ \A a, b \in inflight : a.tick = b.tick

\* the second tick polls an input after the first tick fanned a value out
C1_Witness == Polling /\ prevFanned /\ nticks >= 2

\* C2: when the scan of a tick has found a value V while outputs were
\* registered, every output registered at that moment has been invoked
\* exactly once in that tick, each with V, whatever its siblings returned.
C2_FanOutToAll ==
    foundRec.found =>
        /\ Len(invoked) = foundRec.nout
        /\ \A x \in 0..(foundRec.nout - 1) :
              Cardinality({k \in DOMAIN invoked : invoked[k].x = x}) = 1
        /\ \A k \in DOMAIN invoked : invoked[k].value = foundRec.value

\* two outputs were invoked, one has failed and the other is still running
C2_Witness ==
    /\ wpc = "join" /\ foundRec.nout = 2
    /\ outFailed # {} /\ inflight # {}

\* C3: in tick k (the k-th tick begun, from 0) over n > 0 inputs, the m-th
\* poll is of input (k + m - 1) mod n, no input is polled twice, every poll
\* but the last reported not-found, and a value is fanned out only when the
\* last poll reported found, the value being the one that input supplied.
C3_RotatedScan ==
    (MidTick /\ polled # <<>>) =>
        LET n == Len(inputs)
            k == nticks - 1
        IN /\ n > 0
           /\ Len(polled) <= n
           /\ \A m \in DOMAIN polled : polled[m].x = (k + m - 1) % n
           /\ \A m1, m2 \in DOMAIN polled :
                 m1 # m2 => polled[m1].x # polled[m2].x
           /\ \A m \in DOMAIN polled :
                 m < Len(polled) => polled[m].kind = "notfound"
           /\ (foundRec.found \/ invoked # <<>> \/ wpc = "join") =>
                 /\ LastPoll.kind = "found"
                 /\ foundRec.found
                 /\ foundRec.src = LastPoll.x
                 /\ \A q \in DOMAIN invoked :
                       invoked[q].value = foundRec.value

\* the second tick polled input 1, then input 0, which supplied the value
C3_Witness ==
    /\ wpc = "join" /\ nticks = 2 /\ Len(polled) = 2
    /\ polled[1].x = 1 /\ polled[2].x = 0

\* C4: over a fixed set of n inputs, no input goes n consecutive ticks
\* without being polled; so an input that reports found on every poll
\* supplies the value in at least one of every n consecutive ticks.
C4_NoStarvation ==
    \A x \in DOMAIN starve : starve[x] < Len(starve)

\* with two inputs, input 0 was not reached in the last tick
C4_Witness == Len(starve) = 2 /\ starve[1] = 1 /\ nticks >= 2

ErrEntriesFor(x) ==
    {m \in DOMAIN err : err[m].site = "output" /\ err[m].idx = x}

\* C5: when k >= 1 outputs failed in a tick, the error returned by Err()
\* once done has fired has exactly k entries, one for each failing output
\* and tagged with its index, and no tick is begun after that tick.
C5_OutputFailures ==
    /\ [](DoneFired /\ outFailed # {} =>
            /\ Len(err) = Cardinality(outFailed)
            /\ \A x \in outFailed : Cardinality(ErrEntriesFor(x)) = 1)
    /\ [][outFailed # {} => nticks' = nticks]_vars

\* both outputs of a tick failed and the worker has exited
C5_Witness == DoneFired /\ Cardinality(outFailed) = 2

\* C6: once an input has returned an error, no further input is polled, no
\* output is invoked, no later tick is begun, Err() is the error tagged
\* with the index of that input, and done eventually fires.
C6_InputError ==
    /\ [](InputErrored =>
            /\ Exiting
            /\ inflight = {} /\ outFailed = {}
            /\ ErrAssigned => err = TaggedInputError(LastPoll.x))
    /\ [][InputErrored => nticks' = nticks /\ polled' = polled]_vars
    /\ (InputErrored ~>
          (DoneFired /\ InputErrored
             /\ err = TaggedInputError(LastPoll.x)))

\* the second tick polled input 1, whose error ended the pipe
C6_Witness ==
    /\ DoneFired /\ InputErrored /\ nticks = 2
    /\ Len(polled) = 1 /\ LastPoll.x = 1

\* C7: once an input has panicked, the panic is recovered, the mutex held
\* by the tick is released, no output is invoked, no later tick is begun,
\* Err() is the error tagged with the index of that input, and done
\* eventually fires.
C7_InputPanic ==
    /\ [](InputPanicked =>
            /\ Exiting
            /\ mutex = "unlocked"
            /\ r => wpc = "deferErr"
            /\ inflight = {} /\ outFailed = {}
            /\ ErrAssigned => err = TaggedInputPanic(LastPoll.x))
    /\ [][InputPanicked => nticks' = nticks /\ polled' = polled]_vars
    /\ (InputPanicked ~>
          (DoneFired /\ InputPanicked
             /\ err = TaggedInputPanic(LastPoll.x)))

\* input 0 reported not-found and input 1 panicked
C7_Witness ==
    /\ DoneFired /\ InputPanicked
    /\ Len(polled) = 2 /\ LastPoll.x = 1

\* C8: a call of Stop on a started pipe does not panic, and once Stop has
\* been called, done eventually fires with Err() nil unless an input or
\* output failed or the context given to Start was cancelled.
C8_StopEndsCleanly ==
    /\ [][(Started /\ Stop) => ~panicked']_vars
    /\ (everStopped ~>
          (DoneFired /\ (failed \/ parentCancelled \/ err = NoErr)))

\* Stop was called before the first tick, which then ended the worker
C8_Witness ==
    /\ DoneFired /\ everStopped /\ ~failed /\ ~parentCancelled
    /\ err = NoErr /\ nticks = 1 /\ i = 0

IsContextError(e) == Len(e) = 1 /\ e[1].site = "context"

\* C9: once the context given to Start of a started pipe is cancelled, done
\* eventually fires, and Err() is then the context error unless a caller
\* called Stop or an input or output failed.
C9_CancelEndsWithError ==
    (parentCancelled /\ Started) ~>
        (DoneFired /\ (everStopped \/ failed \/ IsContextError(err)))

\* the context was cancelled after a tick, Stop was never called
C9_Witness ==
    /\ DoneFired /\ parentCancelled /\ ~everStopped /\ ~failed
    /\ IsContextError(err) /\ i >= 1

\* C10: the done channel is closed at most once, never on a pipe that was
\* not started and only by the worker as it exits; Stop does not close it,
\* and the channel p.done names, once made, is never replaced.
C10_DoneOnce ==
    /\ [](/\ done.closes <= 1
          /\ ~Started => ~DoneFired
          /\ DoneFired => wpc = "exited")
    /\ [][/\ Stop => done'.closes = done.closes
          /\ done.id # 0 => done'.id = done.id]_vars

\* done has fired on the channel made before Start, after a call of Stop
C10_Witness == DoneFired /\ done.id = 1 /\ everStopped /\ wpc = "exited"

\* C11: p.err is nil until the worker has left its loop and run its deferred
\* assignment; it is written by that step only, which precedes the closing
\* of done; once done has fired it holds the worker's final error and never
\* changes.
C11_ErrWrittenOnce ==
    /\ [](/\ ~ErrAssigned => err = NoErr
          /\ (wpc \in {"loopTop", "select", "tick"} \/ MidTick) => err = NoErr
          /\ ErrAssigned => err = werr
          /\ DoneFired => ErrAssigned)
    /\ [][/\ err' # err => (wpc = "deferErr" /\ wpc' = "deferCancel")
          /\ ErrAssigned => err' = err
          /\ err' # err => ~DoneFired']_vars

\* done has fired after both outputs failed: Err() is the aggregate
C11_Witness == DoneFired /\ Len(err) = 2 /\ err = werr

TimerStopped == ticker = "stopped"

\* C12: in every state where done has fired, the ticker has been stopped.
\* The worker closes done right after p.cancel() (pipe.go:138-139), while
\* p.ticker.Stop() is run by the cleanup goroutine once it has seen
\* p.ctx.Done() (pipe.go:133-134): nothing orders the two.
C12_DoneAfterTimerStopped == DoneFired => TimerStopped

\* done has fired while the cleanup goroutine has not yet stopped the ticker
C12_Witness == DoneFired /\ ticker = "running" /\ cpc = "waitCtx"

\* C13: in every state where done has fired the worker has exited with no
\* input being polled and no output invocation in flight, and from such a
\* state no step (a timer firing, a registration, any call) begins a tick,
\* polls an input or invokes an output.
C13_TerminalIsPermanent ==
    /\ [](DoneFired => wpc = "exited" /\ ~Polling /\ inflight = {})
    /\ [][DoneFired =>
            /\ wpc' = "exited" /\ mutex' = "unlocked"
            /\ nticks' = nticks /\ polled' = polled
            /\ invoked' = invoked /\ inflight' = {}]_vars

\* done has fired on a pipe with an input and an output registered while a
\* timer firing is still buffered in the ticker's channel
C13_Witness ==
    /\ DoneFired /\ tickerC /\ ticker = "running"
    /\ inputs # <<>> /\ outputs # <<>>

InvocationInFlight == Polling \/ inflight # {}
Blocked(c) == pend[c] # NoCall

\* C14: while an input or output invocation is in flight, p.mutex is not
\* held, and no AddInput, AddOutput, Err or Done call is waiting for it.
\* tick() locks p.mutex at pipe.go:168 and unlocks it by defer when it
\* returns, so the mutex is held across every input call and the whole
\* fan-out and join.
C14_LockNotHeldAcrossCalls ==
    InvocationInFlight =>
        /\ mutex = "unlocked"
        /\ \A c \in Clients : ~Blocked(c)

\* Err() is blocked in p.mutex.Lock() while an output has not returned
C14_Witness ==
    /\ inflight # {} /\ mutex = "worker"
    /\ \E c \in Clients : pend[c].op = "Err"

\* C15: on a started pipe Stop can always be taken to completion, whatever
\* the worker is doing and whoever holds the mutex, and a step of Stop
\* returns at once: it closes p.stop without panicking, without waiting
\* for the mutex and without moving the worker.
C15_StopNeverBlocks ==
    /\ [](Started => ENABLED Stop)
    /\ [][(Started /\ Stop) =>
            /\ stop' = "closed" /\ ~panicked'
            /\ pend' = pend /\ mutex' = mutex /\ wpc' = wpc]_vars

\* Stop has returned during a tick whose outputs have not all returned
C15_Witness ==
    /\ everStopped /\ stop = "closed" /\ ~panicked
    /\ wpc = "join" /\ mutex = "worker" /\ inflight # {}

\* the calls that violate a precondition: Start with a nil context or with
\* rate <= 0, Start on a started pipe (at once, or after waiting for the
\* mutex), Stop on a pipe that was not started, AddInput and AddOutput
\* with a nil function
ViolatingCall ==
    \/ \E rate \in Rates : Start(NIL, rate)
    \/ \E ctx \in Contexts, rate \in Rates : rate <= 0 /\ Start(ctx, rate)
    \/ Started /\ mutex = "unlocked" /\ Start("parent", 1)
    \/ \E c \in Clients : Started /\ pend[c].op = "Start" /\ Resume(c)
    \/ ~Started /\ Stop
    \/ AddInput(NIL)
    \/ AddOutput(NIL)

\* the worker, the cleanup goroutine, the ticker, the context, the inputs
\* and outputs, the stop and done signals and p.err are as they were
PipeUntouched ==
    /\ UNCHANGED <<mutex, close, err, ticker, tickerC, inputs, outputs,
                   cancelled, parentCancelled, workerVars, cpc>>
    /\ done'.closes = done.closes
    /\ (stop' = "closed") <=> (stop = "closed")

StartWaiting == \E c \in Clients : pend[c].op = "Start"

\* C16: every call that violates a precondition panics in the calling
\* goroutine and leaves the pipe untouched: no worker or cleanup goroutine
\* is spawned or moved, the ticker and the context are not replaced,
\* nothing is appended, neither stop nor done fires and p.err is not set;
\* a second Start that has to wait for the mutex gets it and panics.
C16_ViolationsPanic ==
    /\ [][ViolatingCall => panicked' /\ PipeUntouched]_vars
    /\ (StartWaiting ~> ~StartWaiting)

\* a call has just panicked on a running pipe whose worker is waiting in
\* its select after the first tick
C16_Witness ==
    /\ panicked /\ Started /\ ~DoneFired
    /\ wpc = "select" /\ cpc = "waitCtx" /\ ticker = "running"
    /\ nticks = 1 /\ Len(inputs) = 1

OnlyNotFound == \A m \in DOMAIN polled : polled[m].kind = "notfound"
UpstreamCancelled == parentCancelled

\* C17: a tick that finds no input, or whose inputs all report not-found,
\* invokes no output and returns true, so that the worker goes on to its
\* next iteration with a nil error; the worker leaves its loop only when
\* Stop was called, the context was cancelled or an input or output
\* failed; and after Stop, with neither of the latter two, done fires
\* with Err() nil.
C17_NoOpTicks ==
    /\ []((MidTick /\ OnlyNotFound) => invoked = <<>> /\ inflight = {})
    /\ [](Exiting => everStopped \/ UpstreamCancelled \/ failed)
    /\ [][(wpc = "scan" /\ j >= inputLength /\ wpc' # wpc) =>
            /\ OnlyNotFound /\ Len(polled) = inputLength
            /\ wpc' = "loopTop" /\ werr' = NoErr /\ i' = i + 1
            /\ mutex' = "unlocked" /\ inflight' = {}]_vars
    /\ ((everStopped /\ ~failed /\ ~UpstreamCancelled) ~>
           ((DoneFired /\ err = NoErr) \/ failed \/ UpstreamCancelled))

\* three ticks were begun on a pipe with an output and no input, two of
\* them ran to the end, and after Stop done has fired with a nil error
C17_Witness ==
    /\ DoneFired /\ everStopped /\ err = NoErr
    /\ inputs = <<>> /\ outputs # <<>> /\ nticks = 3 /\ i = 2

\* a call of AddInput / AddOutput with a function gets past the mutex,
\* at once or after having waited for it
RegistersInput ==
    \/ \E fn \in InputFns : mutex = "unlocked" /\ AddInput(fn)
    \/ \E c \in Clients : pend[c].op = "AddInput" /\ Resume(c)
RegistersOutput ==
    \/ \E fn \in OutputFns : mutex = "unlocked" /\ AddOutput(fn)
    \/ \E c \in Clients : pend[c].op = "AddOutput" /\ Resume(c)
RegistrationWaiting ==
    \E c \in Clients : pend[c].op \in {"AddInput", "AddOutput"}
WorkerUndisturbed ==
    UNCHANGED <<mutex, err, done, stop, ticker, tickerC, cancelled, workerVars,
                cpc, inflight, polled, invoked, nticks>>

\* C18: on a started pipe a registration appends its function and returns
\* without panicking and without disturbing the worker; a registration
\* that has to wait for the mutex eventually gets it; the snapshot of a
\* tick is the sequences as they are, so it includes every function whose
\* registration has returned: a fan-out invokes every registered output,
\* and the input registered last never goes as many completed ticks
\* unpolled as there are inputs.
C18_LateRegistration ==
    /\ [](MidTick =>
            inputLength = Len(inputs) /\ outputLength = Len(outputs))
    /\ [](foundRec.found =>
            foundRec.nout = Len(outputs) /\ Len(invoked) = Len(outputs))
    /\ []((inputs # <<>> /\ Len(starve) = Len(inputs)) =>
            starve[Len(inputs)] < Len(inputs))
    /\ [][(Started /\ RegistersInput) =>
            /\ Len(inputs') = Len(inputs) + 1 /\ outputs' = outputs
            /\ ~panicked' /\ WorkerUndisturbed]_vars
    /\ [][(Started /\ RegistersOutput) =>
            /\ Len(outputs') = Len(outputs) + 1 /\ inputs' = inputs
            /\ ~panicked' /\ WorkerUndisturbed]_vars
    /\ (RegistrationWaiting ~> ~RegistrationWaiting)

\* the previous tick ran over one input; a second input was registered
\* since and is being polled by the tick that followed
C18_Witness ==
    /\ wpc = "poll" /\ nticks = 2 /\ Len(starve) = 1
    /\ Len(inputs) = 2 /\ lastInput = 1

\* timer firings the worker has received from p.ticker.C
Consumed == fires - (IF tickerC THEN 1 ELSE 0)
\* calls of tick() made or about to be made
TicksDue == nticks + (IF wpc = "tick" THEN 1 ELSE 0)
FirstTickBegun == nticks >= 1
\* the worker left at its first context check, before any tick
LeftBeforeFirstTick == Exiting /\ first

StopRequested == stop = "closed"
\* the worker takes a step
WorkerMoves == wpc' # wpc

\* C21: a tick that is past its stop re-check when p.stop is closed is
\* not cut short by it: it goes on scanning, fans out and joins, and
\* leaves for the exit only on a failure or a cancelled context, with no
\* output left in flight; a tick that begins with p.stop closed polls no
\* input and returns false with a nil error; once p.stop is closed no
\* tick gets into its scan; and done eventually fires.
C21_StopAfterTick ==
    /\ [](~MidTick => inflight = {})
    /\ [][(MidTick /\ StopRequested /\ WorkerMoves) =>
            \/ MidTick'
            \/ wpc' = "loopTop" /\ inflight' = {} /\ werr' = NoErr
            \/ wpc' = "deferErr" /\ inflight' = {}
                  /\ (failed' \/ r' \/ werr' = ContextErr)]_vars
    /\ [][(wpc = "tick" /\ StopRequested /\ WorkerMoves) =>
            /\ wpc' = "deferErr" /\ mutex' = "unlocked"
            /\ polled' = <<>> /\ invoked' = <<>>
            /\ werr' = NoErr /\ ~r']_vars
    /\ [][(StopRequested /\ ~MidTick) => ~MidTick']_vars
    /\ (StopRequested ~> DoneFired)

\* p.stop was closed during a tick, whose two outputs have since returned
\* and are being joined
C21_Witness ==
    /\ wpc = "join" /\ StopRequested /\ everStopped
    /\ Len(invoked) = 2 /\ inflight = {} /\ nrecv = 1

\* the context check before a poll, or the one at the top of the loop,
\* meets a cancelled context: no poll is begun, no output is invoked and
\* the worker leaves with the context error (a scan that is already at
\* its end returns true, and the loop-top check follows)
CancelObserved ==
    /\ (CtxErr /\ wpc = "scan" /\ WorkerMoves) =>
          \/ j >= inputLength /\ wpc' = "loopTop"
          \/ /\ wpc' = "deferErr" /\ werr' = ContextErr
             /\ polled' = polled /\ inflight' = {}
    /\ (CtxErr /\ wpc = "loopTop" /\ WorkerMoves) =>
          wpc' = "deferErr" /\ werr' = ContextErr
    /\ CtxErr => Len(polled') <= Len(polled)

\* a fan-out whose context is cancelled is still joined in full
CancelledFanOutJoined ==
    (CtxErr /\ wpc = "join" /\ WorkerMoves) =>
        inflight' = {} /\ nrecv + 1 = outputLength

CancelledMidTick == parentCancelled /\ MidTick
EndsWithContextError == DoneFired /\ (failed \/ IsContextError(err))

\* C22 as stated: besides the above, once the context is cancelled while
\* an input is being polled, no output is invoked in that tick.
C22_NoWorkAfterCancel ==
    /\ [][CancelObserved /\ CancelledFanOutJoined]_vars
    /\ [][(CtxErr /\ wpc = "poll") => inflight' = {}]_vars
    /\ (CancelledMidTick ~> EndsWithContextError)

\* C22, amended: no input is polled and no output invoked once a context
\* check has met the cancellation; a cancellation that arrives while an
\* input call is in flight is met only by the next check, so a value that
\* call returns is still fanned out, to every output; a fan-out that was
\* started is joined; and the worker then exits with the context error,
\* unless an input or output of that tick failed.
C22_NoWorkAfterCancelObserved ==
    /\ [][CancelObserved /\ CancelledFanOutJoined]_vars
    /\ [][(CtxErr /\ inflight' # {} /\ inflight = {}) =>
            /\ wpc = "poll" /\ wpc' = "join"
            /\ Len(invoked') = Len(outputs)]_vars
    /\ (CancelledMidTick ~> EndsWithContextError)

\* the context was cancelled while the first of two inputs was polled;
\* it reported not-found, the second was not polled, and done has fired
\* with the context error
C22_Witness ==
    /\ DoneFired /\ IsContextError(err) /\ ~failed
    /\ Len(inputs) = 2 /\ Len(polled) = 1 /\ polled[1].kind = "notfound"

JanitorExited == cpc = "exited"
AllReleased ==
    /\ wpc = "exited" /\ DoneFired
    /\ TimerStopped /\ StopRequested

\* C23: once the worker has left its loop, whatever made it leave, the
\* worker exits and the cleanup goroutine stops the ticker, closes p.stop
\* and exits too; the cleanup goroutine exits only after all of that, and
\* nothing restarts the ticker afterwards.
C23_JanitorTerminates ==
    /\ (Exiting ~> (JanitorExited /\ AllReleased))
    /\ [](JanitorExited => AllReleased)
    /\ [][JanitorExited => JanitorExited' /\ TimerStopped']_vars

\* an input or output failed, nobody called Stop or cancelled the context,
\* and both goroutines have exited with the ticker stopped
C23_Witness ==
    /\ JanitorExited /\ AllReleased
    /\ failed /\ ~everStopped /\ ~parentCancelled

====
